---- MODULE Spec2Model ----
(***************************************************************************)
(* A model of package imagesearch (src/google-images.go, the revision that *)
(* starts at line 504): the extraction pipeline unpack / Images / Urls and *)
(* the bulk workflow Download.                                             *)
(*                                                                         *)
(* A page is a sequence of tokens, each a run of characters of a known     *)
(* width, so that strings.LastIndex / strings.Index return character       *)
(* offsets and a slice may cut a token in two:                             *)
(*   marker  the 19 characters AF_initDataCallback                         *)
(*   data    a text that starts with '[' (the embedded array, or a broken  *)
(*           one), the only token that holds a '[';                        *)
(*   fill    characters that hold none of the three patterns searched for  *)
(*           and are not JSON white space;                                 *)
(*   close   the 9 characters </script>                                    *)
(*   part    what is left of a token a slice has cut.                      *)
(* A Go panic (index out of range, failed type assertion, slice bounds out *)
(* of range) is the value Panic, which every later step propagates.        *)
(***************************************************************************)
EXTENDS Integers, Sequences, FiniteSets, TLC

VARIABLES
    page,      \* the text the page fetcher returns for the query
    pc,        \* "start" before the call, "done" once it has returned or panicked
    op,        \* the entry point called: "Images" | "Urls" | "none"
    limit,     \* the limit argument of the call
    net,       \* what the fetch does: "ok" | "fail"
    images,    \* Images' first result
    urls,      \* Urls' first result
    err,       \* the error result: "nil" | errUnpack | DecodeErr | TransportErr
    fault,     \* "none", or the run-time panic that ended the call, nothing returned
    dl,        \* per Download call: its position, arguments, locals and results
    files,     \* the files in the target directory, each [stem, ext]
    writes     \* the files created so far, in order: [by, stem, ext, over]

search == <<pc, op, limit, net, images, urls, err, fault>>
bulk   == <<dl, files, writes>>
vars   == <<page, search, bulk>>

----------------------------------------------------------------------------
(* Bounds of the model *)

MaxTokens  == 4      \* tokens of a page whose layout is enumerated
MaxEntries == 2      \* candidate entries of an enumerated entry list
MaxLimit   == 3      \* largest limit argument tried
MaxUrls    == 3      \* urls a page of a Download call yields at most
MaxDlLimit == 3      \* largest limit argument of Download tried

(* Program constants *)

MarkerLen == 19      \* len("AF_initDataCallback")
CloseLen  == 9       \* len("</script>")
TrimWidth == 20      \* the fixed trim before the closing marker

MagicKey  == "444383007"
SourceKey == "2003"
NavPath   == <<56, 1, 0, 0, 1, 0>>

----------------------------------------------------------------------------
(* Errors *)

errUnpack    == "errUnpack"
DecodeErr    == "json: syntax error"
TransportErr == "transport error"

\* (the test taking every error for the unpacking error)
IsAnyErr(e) == e # "nil"

\* return err == errUnpack
IsUnpackErr(e) == e = errUnpack

----------------------------------------------------------------------------
(* The generic JSON tree json.Unmarshal builds into interface{} values. *)

Panic   == [k |-> "panic"]
JNull   == [k |-> "null"]
JNum(n) == [k |-> "num", n |-> n]
JStr(s) == [k |-> "str", s |-> s]
JArr(a) == [k |-> "arr", a |-> a]
JObj(m) == [k |-> "obj", m |-> m]

\* v.([]interface{})
AsArr(v) == IF v.k = "arr" THEN v ELSE Panic

\* v.([]interface{})[i], Go's 0-based index
At(v, i) ==
    IF v.k # "arr" THEN Panic
    ELSE IF i < 0 \/ i >= Len(v.a) THEN Panic
    ELSE v.a[i + 1]

\* v.(map[string]interface{})[key]: a missing key reads as nil
Key(v, key) ==
    IF v.k # "obj" THEN Panic
    ELSE IF key \in DOMAIN v.m THEN v.m[key] ELSE JNull

\* v.(string)
AsStr(v) == IF v.k = "str" THEN v ELSE Panic

----------------------------------------------------------------------------
(* Page texts *)

Marker == [t |-> "marker"]
Close  == [t |-> "close"]
Fill(n) == [t |-> "fill", len |-> n]
\* a text of n characters starting with '['; enc is "html" while its quotes
\* are still HTML entities; json says what the text decodes to
Data(n, enc, json) == [t |-> "data", len |-> n, enc |-> enc, json |-> json]
\* n characters cut from token tok
Part(tok, n) == [t |-> "part", len |-> n, of |-> tok]

Width(tok) ==
    CASE tok.t = "marker" -> MarkerLen
      [] tok.t = "close"  -> CloseLen
      [] OTHER            -> tok.len

RECURSIVE Offset(_, _)
\* the number of characters before token i
Offset(text, i) == IF i <= 1 THEN 0 ELSE Offset(text, i - 1) + Width(text[i - 1])

TextLen(text) == Offset(text, Len(text) + 1)

Positions(text, pat) == {i \in 1..Len(text) : text[i].t = pat}

MinOf(S) == CHOOSE x \in S : \A y \in S : x <= y
MaxOf(S) == CHOOSE x \in S : \A y \in S : x >= y

\* strings.Index(text, pat): the offset of the first occurrence, or -1
Index(text, pat) ==
    IF Positions(text, pat) = {} THEN -1
    ELSE Offset(text, MinOf(Positions(text, pat)))

\* strings.LastIndex(text, pat): the offset of the last occurrence, or -1
LastIndex(text, pat) ==
    IF Positions(text, pat) = {} THEN -1
    ELSE Offset(text, MaxOf(Positions(text, pat)))

\* text[n:] for 0 <= n <= len(text)
SliceFrom(text, n) ==
    LET keep == {i \in 1..Len(text) : Offset(text, i) + Width(text[i]) > n}
        drop == Len(text) - Cardinality(keep)
    IN  [j \in 1..Cardinality(keep) |->
            IF Offset(text, drop + j) >= n THEN text[drop + j]
            ELSE Part(text[drop + j],
                      Offset(text, drop + j) + Width(text[drop + j]) - n)]

\* text[:n] for 0 <= n <= len(text)
SliceTo(text, n) ==
    LET keep == {i \in 1..Len(text) : Offset(text, i) < n}
    IN  [j \in 1..Cardinality(keep) |->
            IF Offset(text, j) + Width(text[j]) <= n THEN text[j]
            ELSE Part(text[j], n - Offset(text, j))]

\* whether text[:n] is in range; out of range the slice expression panics
SliceInRange(text, n) == 0 <= n /\ n <= TextLen(text)

\* html.UnescapeString: entities become the characters they stand for
UnescapeString(text) ==
    [i \in 1..Len(text) |->
        IF text[i].t = "data" THEN [text[i] EXCEPT !.enc = "plain"] ELSE text[i]]

----------------------------------------------------------------------------
(* What a data text decodes to.  json is [valid, d, at, entries]: a valid  *)
(* text holds the array reached through NavPath, except that with           *)
(* d = "empty" it is "[]", with d = "short" the array at step at of the     *)
(* path is one element short, and with d = "type" a string stands where     *)
(* step at expects an array.  entries names the candidate entries.          *)

SourceInfo(src, host) ==
    JArr([j \in 1..18 |-> IF j = 3 THEN src ELSE IF j = 18 THEN host ELSE JNull])

Details(urlSlot, srcSlot) ==
    JArr([j \in 1..10 |-> IF j = 4 THEN urlSlot ELSE IF j = 10 THEN srcSlot ELSE JNull])

Sourced(info) == JObj([x \in {SourceKey} |-> info])

\* an entry whose mapping holds slot under key
EntryOf(key, slot) == JArr(<<JArr(<<JObj([x \in {key} |-> slot])>>)>>)

\* the three strings an entry of a projectable kind carries
Fields(kind) ==
    CASE kind = "A"         -> [Url |-> "a.png", Source |-> "a.html", Base |-> "a.com"]
      [] kind = "B"         -> [Url |-> "b.png", Source |-> "b.html", Base |-> "b.com"]
      [] kind = "emptyUrl"  -> [Url |-> "",      Source |-> "e.html", Base |-> "e.com"]
      [] kind = "emptyHost" -> [Url |-> "h.png", Source |-> "h.html", Base |-> ""]

Good(url, src, host) ==
    EntryOf(MagicKey,
            JArr(<<JNum(1),
                   Details(JArr(<<JStr(url)>>),
                           Sourced(SourceInfo(JStr(src), JStr(host))))>>))

EntryKinds ==
    {"A", "B", "null", "emptyUrl", "emptyHost",
     "notArr", "noKey", "noUrl", "numSrc", "shortSrc"}

EntryValue(kind) ==
    CASE kind \in {"A", "B", "emptyUrl", "emptyHost"} ->
            Good(Fields(kind).Url, Fields(kind).Source, Fields(kind).Base)
      [] kind = "null"      -> EntryOf(MagicKey, JArr(<<JNum(1), JNull>>))
      [] kind = "notArr"    -> JStr("entry")
      [] kind = "noKey"     -> EntryOf("444383008", JArr(<<JNum(1), JNull>>))
      [] kind = "noUrl"     ->
            EntryOf(MagicKey,
                    JArr(<<JNum(1),
                           Details(JArr(<<>>),
                                   Sourced(SourceInfo(JStr("n.html"), JStr("n.com"))))>>))
      [] kind = "numSrc"    ->
            EntryOf(MagicKey,
                    JArr(<<JNum(1),
                           Details(JArr(<<JStr("m.png")>>),
                                   Sourced(SourceInfo(JNum(7), JStr("m.com"))))>>))
      [] kind = "shortSrc"  ->
            EntryOf(MagicKey,
                    JArr(<<JNum(1),
                           Details(JArr(<<JStr("s.png")>>),
                                   Sourced(JArr(<<JNull, JNull, JStr("s.html")>>)))>>))

RECURSIVE Nest(_, _, _, _)
\* the value at step s of NavPath in a tree whose entry list is leaf
Nest(s, leaf, d, at) ==
    IF d = "type" /\ at = s THEN JStr("moved")
    ELSE IF s > Len(NavPath) THEN leaf
    ELSE IF d = "short" /\ at = s THEN JArr([j \in 1..NavPath[s] |-> JNull])
    ELSE JArr([j \in 1..(NavPath[s] + 1) |->
                  IF j = NavPath[s] + 1 THEN Nest(s + 1, leaf, d, at) ELSE JNull])

Tree(json) ==
    IF json.d = "empty" THEN JArr(<<>>)
    ELSE Nest(1, JArr([i \in 1..Len(json.entries) |-> EntryValue(json.entries[i])]),
              json.d, json.at)

\* json.Unmarshal(text, &imageJson) with imageJson []interface{}: only a whole,
\* unescaped, valid array text decodes
Unmarshal(text) ==
    IF Len(text) = 1 /\ text[1].t = "data" /\ text[1].enc = "plain" /\ text[1].json.valid
    THEN [err |-> "nil", v |-> Tree(text[1].json)]
    ELSE [err |-> DecodeErr, v |-> JNull]

----------------------------------------------------------------------------
(* unpack *)

Returned(imgs, e) == [images |-> imgs, err |-> e, panic |-> "none"]
\* a run-time panic: the call returns nothing
Panicked(why) == [images |-> <<>>, err |-> "nil", panic |-> why]

SliceBounds == "slice bounds out of range"
Navigation  == "index or type assertion on the path to the entry list"
Projection  == "index or type assertion inside an entry"

\* (the search taking the first occurrence of the marker instead of the last)
ScriptStartFirst(text) == Index(text, "marker")

\* scriptStart := strings.LastIndex(page, "AF_initDataCallback")
ScriptStart(text) == LastIndex(text, "marker")

\* endChar := strings.Index(page, "</script>") - 20
EndChar(text) == Index(text, "close") - TrimWidth

\* imageJson[56].([]interface{})[1]. ... [0].([]interface{})
ImageObjects(imageJson) ==
    AsArr(At(At(At(At(At(At(imageJson, NavPath[1]), NavPath[2]), NavPath[3]),
                   NavPath[4]), NavPath[5]), NavPath[6]))

\* imageObject.([]interface{})[0].([]interface{})[0]
\*     .(map[string]interface{})["444383007"].([]interface{})[1]
DetailsSlot(imageObject) == At(Key(At(At(imageObject, 0), 0), MagicKey), 1)

\* (the projection with the two indices of sourceInfo exchanged)
ProjectSwapped(obj) ==
    LET url        == AsStr(At(At(obj, 3), 0))
        sourceInfo == AsArr(Key(At(obj, 9), SourceKey))
        source     == AsStr(At(sourceInfo, 17))
        base       == AsStr(At(sourceInfo, 2))
    IN  IF url.k = "panic" \/ source.k = "panic" \/ base.k = "panic" THEN Panic
        ELSE [k |-> "image", Url |-> url.s, Source |-> source.s, Base |-> base.s]

\* the body of "if obj != nil": the Image built from obj, or Panic
Project(obj) ==
    LET url        == AsStr(At(At(obj, 3), 0))
        sourceInfo == AsArr(Key(At(obj, 9), SourceKey))
        source     == AsStr(At(sourceInfo, 2))
        base       == AsStr(At(sourceInfo, 17))
    IN  IF url.k = "panic" \/ source.k = "panic" \/ base.k = "panic" THEN Panic
        ELSE [k |-> "image", Url |-> url.s, Source |-> source.s, Base |-> base.s]

Image(rec) == [Url |-> rec.Url, Source |-> rec.Source, Base |-> rec.Base]

RECURSIVE Collect(_, _)
\* the loop over imageObjects, acc being the images appended so far
Collect(objs, acc) ==
    IF Len(objs) = 0 THEN Returned(acc, "nil")
    ELSE LET obj == DetailsSlot(Head(objs))
         IN  IF obj.k = "panic" THEN Panicked(Projection)
             ELSE IF obj.k = "null" THEN Collect(Tail(objs), acc)
             ELSE LET img == Project(obj)
                  IN  IF img.k = "panic" THEN Panicked(Projection)
                      ELSE Collect(Tail(objs), Append(acc, Image(img)))

unpack(text) ==
    LET scriptStart == ScriptStart(text)
    IN  IF scriptStart = -1 THEN Returned(<<>>, errUnpack)
        ELSE
    LET page1     == SliceFrom(text, scriptStart)
        startChar == Index(page1, "data")
    IN  IF startChar = -1 THEN Returned(<<>>, errUnpack)
        ELSE
    LET page2   == SliceFrom(page1, startChar)
        endChar == EndChar(page2)
    IN  IF endChar = -1 THEN Returned(<<>>, errUnpack)
        ELSE IF ~SliceInRange(page2, endChar) THEN Panicked(SliceBounds)
        ELSE
    LET dec == Unmarshal(UnescapeString(SliceTo(page2, endChar)))
    IN  IF dec.err # "nil" THEN Returned(<<>>, dec.err)
        ELSE
    LET imageObjects == ImageObjects(dec.v)
    IN  IF imageObjects.k = "panic" THEN Panicked(Navigation)
        ELSE Collect(imageObjects.a, <<>>)

----------------------------------------------------------------------------
(* getPage, Images, Urls *)

\* the page fetcher: the text, or a transport error
getPage(text, nw) ==
    IF nw = "ok" THEN [page |-> text, err |-> "nil"]
    ELSE [page |-> <<>>, err |-> TransportErr]

\* (the truncation without its limit > 0 test)
TruncateAlways(imgs, l) == IF Len(imgs) > l THEN SubSeq(imgs, 1, l) ELSE imgs

\* (the truncation keeping one element too many)
TruncateLate(imgs, l) ==
    IF Len(imgs) > l + 1 /\ l > 0 THEN SubSeq(imgs, 1, l + 1) ELSE imgs

\* if len(images) > limit && limit > 0 { images = images[:limit] }
Truncate(imgs, l) == IF Len(imgs) > l /\ l > 0 THEN SubSeq(imgs, 1, l) ELSE imgs

Images(text, nw, l) ==
    LET got == getPage(text, nw)
    IN  IF got.err # "nil" THEN Returned(<<>>, got.err)
        ELSE LET u == unpack(got.page)
             IN  IF u.panic # "none" THEN Panicked(u.panic)
                 ELSE IF u.err # "nil" THEN Returned(<<>>, u.err)
                 ELSE Returned(Truncate(u.images, l), "nil")

Urls(text, nw, l) ==
    LET got == getPage(text, nw)
    IN  IF got.err # "nil" THEN [urls |-> <<>>, err |-> got.err, panic |-> "none"]
        ELSE LET u == unpack(got.page)
             IN  IF u.panic # "none" THEN [urls |-> <<>>, err |-> "nil", panic |-> u.panic]
                 ELSE IF u.err # "nil" THEN [urls |-> <<>>, err |-> u.err, panic |-> "none"]
                 ELSE LET cut == Truncate(u.images, l)
                      IN  [urls |-> [i \in 1..Len(cut) |-> cut[i].Url],
                           err |-> "nil", panic |-> "none"]

----------------------------------------------------------------------------
(* The pages tried *)

\* "[]"
DEmpty == Data(2, "plain", [valid |-> TRUE, d |-> "empty", at |-> 0, entries |-> <<>>])
\* a page's array with three candidate entries, the second without details
DGood  == Data(40, "plain",
               [valid |-> TRUE, d |-> "ok", at |-> 0, entries |-> <<"A", "null", "B">>])

LayoutTokens == {Marker, Close, Fill(17), Fill(TrimWidth), DEmpty}

\* every arrangement of up to MaxTokens tokens; the page whose closing marker
\* stands exactly TrimWidth characters after the '['; a page's array followed
\* by the closing marker at once, too soon, and where the trim expects it
LayoutPages ==
    UNION {[1..n -> LayoutTokens] : n \in 0..MaxTokens}
    \cup {<<Marker, DEmpty, Fill(TrimWidth - DEmpty.len), Close>>}
    \cup {<<Marker, DGood, Close>>}
    \cup {<<Marker, DGood, f, Close>> : f \in {Fill(17), Fill(TrimWidth)}}

\* every list of up to MaxEntries entries, and the five entries of which the
\* third has no details
EntryLists ==
    UNION {[1..n -> EntryKinds] : n \in 0..MaxEntries}
    \cup {<<"A", "B", "null", "B", "A">>}

Jsons ==
    {[valid |-> TRUE, d |-> "ok", at |-> 0, entries |-> e] : e \in EntryLists}
    \cup {[valid |-> TRUE, d |-> "short", at |-> s, entries |-> <<"A">>] :
             s \in 1..Len(NavPath)}
    \cup {[valid |-> TRUE, d |-> "type", at |-> s, entries |-> <<"A">>] :
             s \in 2..(Len(NavPath) + 1)}
    \cup {[valid |-> FALSE, d |-> "ok", at |-> 0, entries |-> <<>>]}

\* the page as served: an earlier injected dataset, then the one with the images
Served(data) ==
    <<Marker, Fill(17), DEmpty, Fill(TrimWidth), Close,
      Marker, Fill(17), data, Fill(TrimWidth), Close, Fill(18)>>

ServedPages ==
    {Served(Data(40, "plain", j)) : j \in Jsons}
    \cup {Served(Data(40, "html", j)) : j \in {x \in Jsons : Len(x.entries) <= 1}}

Pages == LayoutPages \cup ServedPages

----------------------------------------------------------------------------
(* Download: the calls, the directory *)

Procs == {"p", "q"}

\* a file of the directory: query + strconv.Itoa(stem) + "." + ext
File(stem, ext) == [stem |-> stem, ext |-> ext]
\* the "" DownloadImage returns beside an error
NoPath == File(-1, "")

\* the extensions http.DetectContentType can give an image
Exts == {"png", "jpeg"}

AbsErr      == "filepath.Abs error"
DownloadErr == "DownloadImage error"

\* a call not made
Idle ==
    [pc |-> "off", limit |-> 0, urls |-> <<>>, i |-> 0, suffix |-> 0,
     paths |-> <<>>, missing |-> 0, err |-> "nil", fault |-> "none",
     file |-> NoPath, dlerr |-> "nil", tried |-> <<>>, query |-> "", seen |-> 0]

\* the queries of a Download call: one of plain letters, and one holding a
\* "[", which path/filepath reads as the start of a character class
Queries == {"cat", "cat["}

\* filepath.Match on query + suffix + ".*": ErrBadPattern for the class that
\* is never closed
BadPattern(query) == query = "cat["

\* a probe that finds every name free
GlobNone(dir, query, suffix) == {}

\* filepath.Glob(path.Join(dir, query+strconv.Itoa(suffix)) + ".*"), its error
\* dropped by "matches, _ :=": a malformed pattern matches nothing
Glob(dir, query, suffix) ==
    IF BadPattern(query) THEN {} ELSE {f \in dir : f.stem = suffix}

----------------------------------------------------------------------------
(* One search call *)

Init ==
    /\ page \in Pages
    /\ pc = "start"
    /\ op = "none"
    /\ limit = 0
    /\ net = "ok"
    /\ images = <<>>
    /\ urls = <<>>
    /\ err = "nil"
    /\ fault = "none"
    /\ dl = [p \in Procs |-> Idle]
    /\ files = {}
    /\ writes = <<>>

CallImages ==
    /\ pc = "start"
    /\ \E l \in 0..MaxLimit, n \in {"ok", "fail"} :
          LET r == Images(page, n, l)
          IN  /\ limit' = l
              /\ net' = n
              /\ images' = r.images
              /\ err' = r.err
              /\ fault' = r.panic
    /\ op' = "Images"
    /\ urls' = <<>>
    /\ pc' = "done"
    /\ UNCHANGED <<page, bulk>>

CallUrls ==
    /\ pc = "start"
    /\ \E l \in 0..MaxLimit, n \in {"ok", "fail"} :
          LET r == Urls(page, n, l)
          IN  /\ limit' = l
              /\ net' = n
              /\ urls' = r.urls
              /\ err' = r.err
              /\ fault' = r.panic
    /\ op' = "Urls"
    /\ images' = <<>>
    /\ pc' = "done"
    /\ UNCHANGED <<page, bulk>>

Next == CallImages \/ CallUrls

Spec == Init /\ [][Next]_vars

----------------------------------------------------------------------------
(* What the claims say of a page, read off the page itself *)

HasMarker(p) == \E i \in 1..Len(p) : p[i].t = "marker"

\* the tokens after the last marker that start with '['
BracketsAfterMarker(p) ==
    {j \in 1..Len(p) : /\ p[j].t = "data"
                       /\ \E i \in 1..(j - 1) : p[i].t = "marker"
                       /\ \A i \in (j + 1)..Len(p) : p[i].t # "marker"}

HasBracket(p) == BracketsAfterMarker(p) # {}
BracketAt(p)  == MinOf(BracketsAfterMarker(p))

ClosesAfterBracket(p) == {c \in (BracketAt(p) + 1)..Len(p) : p[c].t = "close"}

HasClose(p) == HasBracket(p) /\ ClosesAfterBracket(p) # {}

\* the characters from the '[' up to the closing marker
Gap(p) == Offset(p, MinOf(ClosesAfterBracket(p))) - Offset(p, BracketAt(p))

\* the trim leaves a substring (possibly empty) of the text that starts at '['
HasLocated(p) == HasClose(p) /\ Gap(p) >= TrimWidth

\* the located substring is the whole of the text that starts at '['
LocatedWhole(p) == HasLocated(p) /\ Gap(p) - TrimWidth = Width(p[BracketAt(p)])

LocatedJson(p) == p[BracketAt(p)].json

\* the located substring decodes, and to the tree the navigation path expects
WellNavigable(p) ==
    LocatedWhole(p) /\ LocatedJson(p).valid /\ LocatedJson(p).d = "ok"

Entries(p) == LocatedJson(p).entries

\* entries whose details slot is null, or holds three non-empty strings
WellFormedKinds == {"A", "B", "null"}
\* entries on which a step of the projection fails
FailingKinds == {"notArr", "noKey", "noUrl", "numSrc", "shortSrc"}
\* entries that have a details slot, and not a null one
NonNullKinds == EntryKinds \ {"null", "notArr", "noKey"}

RECURSIVE Projections(_)
\* the records of the entries of a list that are of kind A or B, in order
Projections(kinds) ==
    IF Len(kinds) = 0 THEN <<>>
    ELSE IF Head(kinds) \in {"A", "B"}
         THEN <<Fields(Head(kinds))>> \o Projections(Tail(kinds))
         ELSE Projections(Tail(kinds))

Fetched == pc = "done" /\ net = "ok"
NoRecords == images = <<>> /\ urls = <<>>
FormatError == IsUnpackErr(err) /\ fault = "none" /\ NoRecords

\* C1: a page without the marker, or with no '[' after the marker's last
\* occurrence, makes the call return the format error and no records, and
\* neither a transport error, a decode error nor a panic.
C1_NoMarkerOrNoBracket ==
    (Fetched /\ (~HasMarker(page) \/ ~HasBracket(page)))
        => (FormatError /\ err # TransportErr /\ err # DecodeErr)

\* C1's case: the marker occurs, a '[' stands before its last occurrence only
C1_Witness ==
    /\ Fetched /\ op = "Images"
    /\ HasMarker(page) /\ ~HasBracket(page)
    /\ \E j \in 1..Len(page) : page[j].t = "data"
    /\ IsUnpackErr(err)

\* C2: with the marker and a '[' but no closing marker after it the call
\* returns the format error and no records, and wherever the closing marker
\* stands the 20-character trim never slices out of range.
C2_NoCloseIsFormatError ==
    Fetched => /\ (HasBracket(page) /\ ~HasClose(page)) => FormatError
               /\ fault # SliceBounds

\* C3: a located substring that is valid JSON but does not match the path to
\* the entry list makes the call return the format error and no records; no
\* index or type-assertion fault escapes.
C3_MismatchIsFormatError ==
    (Fetched /\ LocatedWhole(page) /\ LocatedJson(page).valid
             /\ LocatedJson(page).d # "ok")
        => FormatError

\* C4: for a well-formed entry list and limit 0, Images returns exactly the
\* projections of the entries with a non-null details slot, in their order.
C4_NullSkippedOrderKept ==
    (Fetched /\ op = "Images" /\ limit = 0 /\ WellNavigable(page)
             /\ \A i \in 1..Len(Entries(page)) : Entries(page)[i] \in WellFormedKinds)
        => /\ err = "nil" /\ fault = "none"
           /\ images = Projections(Entries(page))

\* C4's case: five entries, the third without details, four records
C4_Witness ==
    /\ Fetched /\ op = "Images" /\ limit = 0 /\ WellNavigable(page)
    /\ Entries(page) = <<"A", "B", "null", "B", "A">>
    /\ Len(images) = 4

\* C5: Images (and Urls) return the first min(limit, n) of the page's n
\* records when limit > 0 and all n when limit = 0, in source order.
C5_TruncateToLimit ==
    (Fetched /\ err = "nil" /\ fault = "none")
        => LET all  == unpack(page).images
               n    == Len(all)
               keep == IF limit = 0 \/ limit > n THEN n ELSE limit
           IN  /\ op = "Images" => images = SubSeq(all, 1, keep)
               /\ op = "Urls" => urls = [i \in 1..keep |-> all[i].Url]

\* C5's case: more records than the limit asks for
C5_Witness ==
    /\ Fetched /\ op = "Images" /\ err = "nil" /\ fault = "none"
    /\ limit > 0 /\ Len(unpack(page).images) > limit
    /\ Len(images) = limit

\* C6: an entry that fails its projection is dropped alone: the call returns,
\* without error, the records of the other entries in source order.
C6_EntryFailureIsolated ==
    (Fetched /\ op = "Images" /\ limit = 0 /\ WellNavigable(page)
             /\ (\A i \in 1..Len(Entries(page)) :
                    Entries(page)[i] \in WellFormedKinds \cup FailingKinds)
             /\ (\E j \in 1..Len(Entries(page)) : Entries(page)[j] \in FailingKinds))
        => /\ err = "nil" /\ fault = "none"
           /\ images = Projections(Entries(page))

\* C7: a located substring that is not valid JSON gives a decode error, which
\* IsUnpackErr rejects, and no records; and IsUnpackErr accepts an error only
\* when the page was fetched and no substring could be located in it.
C7_DecodeErrorDistinct ==
    /\ (Fetched /\ HasLocated(page)
                /\ ~(LocatedWhole(page) /\ LocatedJson(page).valid))
          => (err = DecodeErr /\ ~IsUnpackErr(err) /\ fault = "none" /\ NoRecords)
    /\ (pc = "done" /\ IsUnpackErr(err))
          => (net = "ok" /\ ~HasLocated(page))
    /\ (pc = "done" /\ net = "fail") => (err = TransportErr /\ ~IsUnpackErr(err))

\* C7's case: the trim cuts the array short, and the decoder refuses it
C7_Witness ==
    /\ Fetched /\ HasLocated(page) /\ ~LocatedWhole(page)
    /\ LocatedJson(page).valid
    /\ err = DecodeErr

\* C8: every record returned has a non-empty Url, Source and Base.
C8_FieldsNonEmpty ==
    pc = "done"
        => /\ \A i \in 1..Len(images) :
                images[i].Url # "" /\ images[i].Source # "" /\ images[i].Base # ""
           /\ \A i \in 1..Len(urls) : urls[i] # ""

\* the candidate entries of the page whose details slot is not null
NonNullCount(p) ==
    IF WellNavigable(p)
    THEN Cardinality({i \in 1..Len(Entries(p)) : Entries(p)[i] \in NonNullKinds})
    ELSE 0

\* C9: Images never returns more records than the page has candidate entries
\* with a non-null details slot, nor more than a limit > 0.
C9_CountBounded ==
    (pc = "done" /\ op = "Images")
        => /\ Len(images) <= NonNullCount(page)
           /\ limit > 0 => Len(images) <= limit

\* C9's case: the limit, not the page, bounds the result
C9_Witness ==
    /\ Fetched /\ op = "Images" /\ limit > 0
    /\ NonNullCount(page) > limit
    /\ Len(images) = limit

----------------------------------------------------------------------------
(* Download, a step at a time: the directory is read by each Glob and       *)
(* written by each os.Create, and other calls may run in between.           *)

\* the pages of a Download call: up to MaxUrls complete entries, a page
\* without the marker, and a page with an entry that cannot be projected
DownloadPages ==
    {Served(Data(40, "plain", [valid |-> TRUE, d |-> "ok", at |-> 0, entries |-> e])) :
        e \in UNION {[1..n -> {"A", "B"}] : n \in 0..MaxUrls}}
    \cup {<<Fill(17)>>,
          Served(Data(40, "plain",
                      [valid |-> TRUE, d |-> "ok", at |-> 0, entries |-> <<"noKey">>]))}

\* the directory before the call: any of these files may be there
OldFiles == {File(0, "png"), File(1, "gif")}

\* lines 628-640: filepath.Abs, Urls(query, 0, arguments...), var suffix, var i
DStart(p) ==
    /\ dl[p].pc = "start"
    /\ \E l \in 0..MaxDlLimit, env \in {"ok", "abs", "net"} :
          LET r == Urls(page, IF env = "net" THEN "fail" ELSE "ok", 0)
          IN  dl' = [dl EXCEPT ![p] =
                  IF env = "abs"
                  THEN [@ EXCEPT !.pc = "done", !.limit = l, !.err = AbsErr]
                  ELSE IF r.panic # "none"
                  THEN [@ EXCEPT !.pc = "done", !.limit = l, !.fault = r.panic]
                  ELSE IF r.err # "nil"
                  THEN [@ EXCEPT !.pc = "done", !.limit = l, !.err = r.err]
                  ELSE [@ EXCEPT !.pc = "loop", !.limit = l, !.urls = r.urls]]
    /\ UNCHANGED <<page, search, files, writes>>

\* lines 641-647: the loop test, the exhaustion test, url := urls[i]
DLoop(p) ==
    /\ dl[p].pc = "loop"
    /\ dl' = [dl EXCEPT ![p] =
          IF Len(dl[p].paths) < dl[p].limit
          THEN IF dl[p].i >= Len(dl[p].urls)
               THEN [@ EXCEPT !.missing = dl[p].limit - Len(dl[p].paths),
                              !.pc = "done"]
               ELSE [@ EXCEPT !.pc = "glob"]
          ELSE [@ EXCEPT !.pc = "done"]]
    /\ UNCHANGED <<page, search, files, writes>>

\* a probe loop that forgets suffix++
DGlobStuck(p) ==
    /\ dl[p].pc = "glob"
    /\ dl' = [dl EXCEPT ![p] =
          IF Glob(files, dl[p].query, dl[p].suffix) # {}
          THEN @
          ELSE [@ EXCEPT !.pc = "fetch", !.seen = Len(writes)]]
    /\ UNCHANGED <<page, search, files, writes>>

\* lines 648-654: one Glob; while it matches, suffix++ and Glob again
DGlob(p) ==
    /\ dl[p].pc = "glob"
    /\ dl' = [dl EXCEPT ![p] =
          IF Glob(files, dl[p].query, dl[p].suffix) # {}
          THEN [@ EXCEPT !.suffix = @ + 1]
          ELSE [@ EXCEPT !.pc = "fetch", !.seen = Len(writes)]]
    /\ UNCHANGED <<page, search, files, writes>>

\* lines 656 and 665, DownloadImage(url, dir, query+strconv.Itoa(suffix)):
\* an error and "" before os.Create (lines 690-721, 726-729); the file created
\* (truncated when it exists) and then an error and "" from f.Write (lines
\* 730-733); or the file created and written, and its path
DDownloadImage(p) ==
    /\ dl[p].pc = "fetch"
    /\ \/ /\ dl' = [dl EXCEPT ![p] =
                [@ EXCEPT !.file = NoPath, !.dlerr = DownloadErr, !.pc = "retry",
                          !.tried = Append(@, [i |-> dl[p].i, ok |-> FALSE,
                                               path |-> NoPath])]]
          /\ UNCHANGED <<files, writes>>
       \/ \E ext \in Exts :
             LET f == File(dl[p].suffix, ext)
             IN  /\ dl' = [dl EXCEPT ![p] =
                       [@ EXCEPT !.file = NoPath, !.dlerr = DownloadErr, !.pc = "retry",
                                 !.tried = Append(@, [i |-> dl[p].i, ok |-> FALSE,
                                                      path |-> NoPath])]]
                 /\ files' = files \cup {f}
                 /\ writes' = Append(writes, [by |-> p, stem |-> f.stem, ext |-> ext,
                                              over |-> f \in files, done |-> FALSE,
                                              seen |-> dl[p].seen])
       \/ \E ext \in Exts :
             LET f == File(dl[p].suffix, ext)
             IN  /\ dl' = [dl EXCEPT ![p] =
                       [@ EXCEPT !.file = f, !.dlerr = "nil", !.pc = "append",
                                 !.tried = Append(@, [i |-> dl[p].i, ok |-> TRUE,
                                                      path |-> f])]]
                 /\ files' = files \cup {f}
                 /\ writes' = Append(writes, [by |-> p, stem |-> f.stem, ext |-> ext,
                                              over |-> f \in files, done |-> TRUE,
                                              seen |-> dl[p].seen])
    /\ UNCHANGED <<page, search>>

\* a Download that returns the error of the DownloadImage call that failed
DRetryAbort(p) ==
    /\ dl[p].pc = "retry"
    /\ dl' = [dl EXCEPT ![p] = [@ EXCEPT !.err = dl[p].dlerr, !.pc = "done"]]
    /\ UNCHANGED <<page, search, files, writes>>

\* lines 657-664: err != nil: i++, the exhaustion test and break, url = urls[i]
DRetry(p) ==
    /\ dl[p].pc = "retry"
    /\ dl' = [dl EXCEPT ![p] =
          IF dl[p].i + 1 >= Len(dl[p].urls)
          THEN [@ EXCEPT !.i = @ + 1, !.missing = dl[p].limit - Len(dl[p].paths),
                         !.pc = "append"]
          ELSE [@ EXCEPT !.i = @ + 1, !.pc = "fetch"]]
    /\ UNCHANGED <<page, search, files, writes>>

\* lines 668-669: paths = append(paths, file); i++
DAppend(p) ==
    /\ dl[p].pc = "append"
    /\ dl' = [dl EXCEPT ![p] =
          [@ EXCEPT !.paths = Append(@, dl[p].file), !.i = @ + 1, !.pc = "loop"]]
    /\ UNCHANGED <<page, search, files, writes>>

\* one Download call, nothing else writing to the directory
InitDownload ==
    /\ page \in DownloadPages
    /\ pc = "off" /\ op = "none" /\ limit = 0 /\ net = "ok"
    /\ images = <<>> /\ urls = <<>> /\ err = "nil" /\ fault = "none"
    /\ \E q \in Queries :
          dl = [p \in Procs |->
                  IF p = "p" THEN [Idle EXCEPT !.pc = "start", !.query = q] ELSE Idle]
    /\ files \in SUBSET OldFiles
    /\ writes = <<>>

NextDownload ==
    \E p \in Procs :
        \/ DStart(p)
        \/ DLoop(p)
        \/ DGlob(p)
        \/ DDownloadImage(p)
        \/ DRetry(p)
        \/ DAppend(p)

SpecDownload == InitDownload /\ [][NextDownload]_vars

\* the call of process "p" has returned its three results
Returns == dl["p"].pc = "done" /\ dl["p"].err = "nil" /\ dl["p"].fault = "none"

\* the paths of the downloads that succeeded, in the order made
RECURSIVE Downloaded(_)
Downloaded(tried) ==
    IF Len(tried) = 0 THEN <<>>
    ELSE IF Head(tried).ok THEN <<Head(tried).path>> \o Downloaded(Tail(tried))
         ELSE Downloaded(Tail(tried))

\* C10: with limit 0 Download attempts every url found and returns the path
\* of each download that succeeds; with limit > 0 it returns at most limit
\* paths.
C10_ZeroDownloadsAll ==
    Returns
        => /\ dl["p"].limit = 0
              => /\ {dl["p"].tried[k].i : k \in 1..Len(dl["p"].tried)}
                       = 0..(Len(dl["p"].urls) - 1)
                 /\ dl["p"].paths = Downloaded(dl["p"].tried)
           /\ dl["p"].limit > 0 => Len(dl["p"].paths) <= dl["p"].limit

\* the number of DownloadImage calls of process "p" that succeeded
Successes == Len(Downloaded(dl["p"].tried))

\* C11: when Download returns for a limit > 0, missing is the limit minus the
\* number of images downloaded, and it is non-zero only when fewer than limit
\* images were downloaded.
C11_MissingIsShortfall ==
    (Returns /\ dl["p"].limit > 0)
        => /\ dl["p"].missing = dl["p"].limit - Successes
           /\ dl["p"].missing # 0 => Successes < dl["p"].limit

\* C12: every element of paths is the path of a DownloadImage call that
\* succeeded, one for each and in the order made; a download that failed
\* adds no element.
C12_PathsAreDownloads ==
    Returns => dl["p"].paths = Downloaded(dl["p"].tried)

Written(w) == File(w.stem, w.ext)

\* C14: in one Download call with nothing else writing to the directory, each
\* file is written under a stem no file had before the call: the stems used
\* never decrease, no file that was there before the call is overwritten, and
\* no two images downloaded by the call get the same stem.
C14_FreshStems ==
    \A k \in 1..Len(writes) :
        /\ \A f \in files :
               f.stem = writes[k].stem
                  => \E j \in 1..Len(writes) : Written(writes[j]) = f
        /\ writes[k].over
               => \E j \in 1..(k - 1) : Written(writes[j]) = Written(writes[k])
        /\ \A j \in 1..(k - 1) :
               /\ writes[j].stem <= writes[k].stem
               /\ (writes[j].done /\ writes[k].done)
                     => writes[j].stem # writes[k].stem

\* the same for the queries that hold no pattern syntax
C14_FreshStemsPlain == ~BadPattern(dl["p"].query) => C14_FreshStems

----------------------------------------------------------------------------
(* Two Download calls at once, same directory and same query *)

\* the page both calls read: two complete entries
ConcurrentPages ==
    {Served(Data(40, "plain",
                 [valid |-> TRUE, d |-> "ok", at |-> 0, entries |-> <<"A", "B">>]))}

InitConcurrent ==
    /\ page \in ConcurrentPages
    /\ pc = "off" /\ op = "none" /\ limit = 0 /\ net = "ok"
    /\ images = <<>> /\ urls = <<>> /\ err = "nil" /\ fault = "none"
    /\ dl = [p \in Procs |-> [Idle EXCEPT !.pc = "start", !.query = "cat"]]
    /\ files \in {{}, {File(0, "png")}}
    /\ writes = <<>>

SpecConcurrent == InitConcurrent /\ [][NextDownload]_vars

\* writes j and k are of two calls and of one stem
Collide(j, k) ==
    /\ writes[j].by # writes[k].by
    /\ writes[j].stem = writes[k].stem

\* C15: the probe and the creation are two steps: two calls at once can both
\* find a suffix free and both write that stem, and they do so only when the
\* first write falls between the second call's probe and its write (seen is
\* the number of writes made when the writer's probe ended).
C15_CollisionOnlyInWindow ==
    \A k \in 1..Len(writes) :
        \A j \in 1..(k - 1) : Collide(j, k) => j > writes[k].seen

\* both calls have written an image under the same stem
C15_Witness ==
    \E k \in 1..Len(writes) :
        \E j \in 1..(k - 1) :
            Collide(j, k) /\ writes[j].done /\ writes[k].done

----------------------------------------------------------------------------
(* Termination of one call *)

\* the call is run: a step that can be taken is taken
FairDownload == SpecDownload /\ WF_vars(NextDownload)

\* the index of the last DownloadImage call of process "p", -1 before the first
LastTried(t) == IF Len(t) = 0 THEN -1 ELSE t[Len(t)].i

\* C16: Download terminates for every url list, limit, initial directory and
\* pattern of failures: each DownloadImage call is on a url index above the
\* one before, the probe leaves its loop at the first suffix Glob reports
\* free, without passing it, and the call reaches its return.
C16_Terminates ==
    /\ [][/\ Len(dl'["p"].tried) > Len(dl["p"].tried)
              => LastTried(dl'["p"].tried) > LastTried(dl["p"].tried)
          /\ (dl["p"].pc = "glob" /\ dl'["p"].pc = "fetch")
              => /\ dl'["p"].suffix = dl["p"].suffix
                 /\ Glob(files, dl["p"].query, dl["p"].suffix) = {}
          /\ dl'["p"].suffix # dl["p"].suffix
              => /\ dl'["p"].suffix = dl["p"].suffix + 1
                 /\ Glob(files, dl["p"].query, dl["p"].suffix) # {}]_vars
    /\ <>(dl["p"].pc = "done")

\* a call that has returned after probing past a file and after a failure
C16_Witness ==
    /\ Returns /\ dl["p"].suffix > 0
    /\ \E k \in 1..Len(dl["p"].tried) : ~dl["p"].tried[k].ok
    /\ Successes > 0

====
